---- MODULE Spec2Model ----
(***************************************************************************)
(* Group-chat workflow of argo (src/src/argo/workflows/group_chat.py) and  *)
(* the GAIA driver that runs it (src/evals/gaia_benchmark.py).             *)
(*                                                                         *)
(* A LoopAgent iterates over four sub-agents: the ParallelAgent            *)
(* "Working_Group", the coordinator LlmAgent, _UpdateChatHistory and       *)
(* _CheckConsensusAndEscalate.  Session state is a key/value dictionary;   *)
(* an LlmAgent with an output_key writes its final text under that key     *)
(* only when the final event carries content.                              *)
(*                                                                         *)
(* Texts are sequences of tokens.  A message is a record holding its text  *)
(* together with its author and the round that produced it (provenance).   *)
(***************************************************************************)
EXTENDS Integers, Sequences, FiniteSets, TLC

VARIABLES
    max_iterations,   \* LoopAgent.max_iterations
    times_looped,     \* LoopAgent's loop counter
    sub_idx,          \* index in SubAgents of the sub-agent being run
    active,           \* TRUE while the current sub-agent's run is in progress
    inflight,         \* participants of the working group still running
    ctl,              \* "RUNNING", "CONSENSUS_REACHED", "EXHAUSTED", "ERROR"
    state,            \* session.state: key -> value
    key_order,        \* insertion order of the keys of session.state
    final_response,   \* the driver's local variable final_response
    result,           \* the driver's result record
    failed_by,        \* name of the agent whose call raised, or "none"
    started,          \* history: sub-agent name -> number of runs started
    completed,        \* history: sub-agent name -> number of runs completed
    produced,         \* history: every message produced so far
    folded,           \* history: per transcript update, the entries it appended
    tag_input,        \* TagSpec: the coordinator value handed to the detector
    tag_result,       \* TagSpec: "none", or the flag the detector computed
    group_agents,     \* the group_agents argument of get_group_chat_agent
    invocations,      \* history: agent name -> number of times it was invoked
    driver_session,   \* state of the Session object the driver holds
    driver_pc,        \* "try", "write_result", "write_trace", "finished", "crashed"
    results_file,     \* the records appended to the results file
    trace_out,        \* what the driver appended to the trace file for the task
    unzip_base_path,  \* tools: the UNZIP_PATH environment variable, "" when unset
    extract_dirs,     \* tools: the directories under UNZIP_PATH and their contents
    unzip_ret,        \* tools: what the last call of unzip_file returned
    unzip_calls,      \* tools: number of unzip_file calls made
    exec_input,       \* tools: the arguments and environment of execute_python_code
    exec_ret          \* tools: what execute_python_code returned

vars == <<max_iterations, times_looped, sub_idx, active, inflight, ctl, state,
          key_order, final_response, result, failed_by, started, completed,
          produced, folded, tag_input, tag_result, group_agents, invocations,
          driver_session, driver_pc, results_file, trace_out,
          unzip_base_path, extract_dirs, unzip_ret, unzip_calls, exec_input,
          exec_ret>>

\* the state of the tools, which the group chat and the driver leave alone
toolVars ==
    <<unzip_base_path, extract_dirs, unzip_ret, unzip_calls, exec_input, exec_ret>>

\* the state of the task's run, which the tools leave alone
runVars ==
    <<max_iterations, times_looped, sub_idx, active, inflight, ctl, state,
      key_order, final_response, result, failed_by, started, completed,
      produced, folded, tag_input, tag_result, group_agents, invocations,
      driver_session, driver_pc, results_file, trace_out>>

---------------------------------------------------------------------------
(* Bounds of the model *)

NumParticipants == 2
MaxIterBound == 2
MaxTextLen == 5

\* longest response handed to extract_final_answer, in tokens
MaxAnswerLen == 4

\* number of unzip_file calls in a row
MaxUnzipCalls == 3

---------------------------------------------------------------------------
(* Configuration: the agents of the GAIA team *)

ParticipantNames ==
    <<"Researcher_Alice", "Researcher_Bob", "Researcher_Carol",
      "Fact_Checker_Dave", "Python_Expert_Eve", "Browser_Frank",
      "Browser_Grace", "Browser_Heidi">>

Participants == {ParticipantNames[i] : i \in 1..NumParticipants}

CoordinatorName == "Coordinator"

AgentNames ==
    {ParticipantNames[i] : i \in 1..Len(ParticipantNames)} \cup {CoordinatorName}

\* one key for every agent
OutputKeyShared(name) == <<"Working_Group", "_message">>

\* output_key of an LlmAgent: "<name>_message"
OutputKey(name) == <<name, "_message">>

\* the key of a coordinator agent named Lead
ConsensusKeyOfLead == <<"Lead", "_message">>

\* the literal key the consensus check reads
ConsensusKey == <<"Coordinator", "_message">>

ChatHistoryKey == <<"chat_history">>

ConsensusTag == "consensus_reached"

\* the list with the consensus check before the transcript update
SubAgentsCheckBeforeUpdate ==
    <<"Working_Group", "Coordinator", "Check_Consensus", "Update_Chat_History">>

\* the list with the transcript update before the coordinator
SubAgentsUpdateBeforeCoordinator ==
    <<"Working_Group", "Update_Chat_History", "Coordinator", "Check_Consensus">>

\* sub_agents of the LoopAgent, in list order
SubAgents ==
    <<"Working_Group", "Coordinator", "Update_Chat_History", "Check_Consensus">>

StepNames == {"Working_Group", "Coordinator", "Update_Chat_History", "Check_Consensus"}

---------------------------------------------------------------------------
(* Texts *)

Alphabet == {"<", ">", "/", " ", "consensus_reached", "CONSENSUS_REACHED", "x"}

\* str.lower() / re.IGNORECASE on one token
Fold(tok) == IF tok = "CONSENSUS_REACHED" THEN "consensus_reached" ELSE tok

IsSpace(tok) == tok = " "

NoMsg == [by |-> "none", rnd |-> -1, text |-> <<>>]

Msg(name, rnd, text) == [by |-> name, rnd |-> rnd, text |-> text]

\* the token at position i, or an end-of-text sentinel
At(text, i) == IF i >= 1 /\ i <= Len(text) THEN text[i] ELSE "$"

\* \s* : the position after the whitespace that starts at position i
RECURSIVE SkipSpaces(_, _)
SkipSpaces(text, i) ==
    IF i <= Len(text) /\ IsSpace(text[i]) THEN SkipSpaces(text, i + 1) ELSE i

\* <tag\s*/> at position i
MatchSelfClosing(text, i, tag) ==
    LET j == SkipSpaces(text, i + 2)
    IN  /\ At(text, i) = "<"
        /\ Fold(At(text, i + 1)) = Fold(tag)
        /\ At(text, j) = "/"
        /\ At(text, j + 1) = ">"

\* <tag> at position i
MatchOpening(text, i, tag) ==
    /\ At(text, i) = "<"
    /\ Fold(At(text, i + 1)) = Fold(tag)
    /\ At(text, i + 2) = ">"

\* the same search without re.IGNORECASE
check_tag_presence_case_sensitive(text, tag) ==
    \E i \in 1..Len(text) :
        /\ At(text, i) = "<"
        /\ At(text, i + 1) = tag
        /\ \/ At(text, i + 2) = ">"
           \/ LET j == SkipSpaces(text, i + 2)
              IN  At(text, j) = "/" /\ At(text, j + 1) = ">"

\* re.search(rf"<{tag}\s*/>|<{tag}>", text, re.IGNORECASE)
check_tag_presence(text, tag) ==
    \E i \in 1..Len(text) :
        MatchSelfClosing(text, i, tag) \/ MatchOpening(text, i, tag)

---------------------------------------------------------------------------
(* Session state *)

HasKey(st, k) == k \in DOMAIN st

\* dict assignment: a new key goes to the end of the insertion order
SetKey(st, k, v) == [x \in (DOMAIN st) \cup {k} |-> IF x = k THEN v ELSE st[x]]

OrderAfterSet(ord, st, k) == IF HasKey(st, k) THEN ord ELSE Append(ord, k)

\* a pattern that every key matches
MatchesEveryKey(k) == TRUE

\* a pattern that the coordinator's key does not match
MatchesNamePatternNotCoordinator(k) ==
    Len(k) = 2 /\ k[2] = "_message" /\ k[1] # "" /\ k[1] # "Coordinator"

\* name_pattern = ^(?P<name>.+)_message$
MatchesNamePattern(k) == Len(k) = 2 /\ k[2] = "_message" /\ k[1] # ""

\* the consensus check reads the coordinator's text, "" when the key is absent
CoordinatorText(st) == IF HasKey(st, ConsensusKey) THEN st[ConsensusKey].text ELSE <<>>

EscalateFlag(st) == check_tag_presence(CoordinatorText(st), ConsensusTag)

---------------------------------------------------------------------------
(* Transcript: a text whose tokens are newlines and rendered entries *)

NL == [kind |-> "nl"]

\* f"[{name}]: {message}" as one token
Entry(name, message) == [kind |-> "entry", name |-> name, message |-> message]

\* the keys matching the name pattern, in dict order
RECURSIVE MessageKeys(_)
MessageKeys(ord) ==
    IF ord = <<>> THEN <<>>
    ELSE IF MatchesNamePattern(Head(ord))
         THEN <<Head(ord)>> \o MessageKeys(Tail(ord))
         ELSE MessageKeys(Tail(ord))

\* new_messages.items(): <<name, message>> pairs in dict order
NewMessages(st, ord) ==
    LET ks == MessageKeys(ord)
    IN  [i \in 1..Len(ks) |-> Entry(ks[i][1], st[ks[i]])]

\* "\n".join(f"[{name}]: {message}\n" for ...)
RECURSIVE JoinLines(_)
JoinLines(entries) ==
    IF entries = <<>> THEN <<>>
    ELSE IF Len(entries) = 1 THEN <<entries[1], NL>>
    ELSE <<entries[1], NL, NL>> \o JoinLines(Tail(entries))

ChatHistory(st) == IF HasKey(st, ChatHistoryKey) THEN st[ChatHistoryKey] ELSE <<>>

\* the same update without the previous transcript
UpdatedChatHistoryOverwrite(st, ord) == <<NL>> \o JoinLines(NewMessages(st, ord))

\* updated_chat_history of _UpdateChatHistory
UpdatedChatHistory(st, ord) ==
    (ChatHistory(st) \o <<NL>>) \o JoinLines(NewMessages(st, ord))

---------------------------------------------------------------------------
(* What the agents can answer *)

ParticipantTexts == {<<"x">>}

CoordinatorTexts ==
    { <<"x">>,
      <<"x", "<", "consensus_reached", "/", ">">>,
      <<"<", "CONSENSUS_REACHED", ">", "x", "<", "/", "CONSENSUS_REACHED", ">">>,
      <<"<", "consensus_reached", " ", "/", ">", "x">> }

Texts(n) == UNION {[1..k -> Alphabet] : k \in 0..n}

---------------------------------------------------------------------------
(* The driver's result records *)

(* extract_final_answer: a response is a sequence of tokens, among them the
   prefix in either letter case, the newline and the blank *)

AnswerPrefixes == {"FINAL ANSWER:", "final answer:"}

AnswerAlphabet == AnswerPrefixes \cup {"\n", " ", "x"}

AnswerTexts == UNION {[1..k -> AnswerAlphabet] : k \in 0..MaxAnswerLen}

\* \s of the pattern, and what str.strip() removes
IsWhite(t) == t \in {" ", "\n"}

RECURSIVE LStrip(_)
LStrip(s) ==
    IF s = <<>> THEN <<>>
    ELSE IF IsWhite(Head(s)) THEN LStrip(Tail(s)) ELSE s

RECURSIVE RStrip(_)
RStrip(s) ==
    IF s = <<>> THEN <<>>
    ELSE IF IsWhite(s[Len(s)]) THEN RStrip(SubSeq(s, 1, Len(s) - 1)) ELSE s

\* str.strip()
Strip(s) == RStrip(LStrip(s))

\* str.split('\n')
RECURSIVE SplitLines(_)
SplitLines(s) ==
    LET nls == {i \in DOMAIN s : s[i] = "\n"}
    IN  IF nls = {} THEN <<s>>
        ELSE LET i == CHOOSE k \in nls : \A j \in nls : k <= j
             IN  <<SubSeq(s, 1, i - 1)>> \o SplitLines(SubSeq(s, i + 1, Len(s)))

NoAnswer == [found |-> FALSE, text |-> <<>>]

Found(text) == [found |-> TRUE, text |-> text]

PrefixPositions(s) == {i \in DOMAIN s : s[i] \in AnswerPrefixes}

\* group(1) of FINAL ANSWER:\s*(.*?)(?:\n|$) at its leftmost match: the
\* whitespace after the prefix is skipped, the group ends at the next
\* newline or at the end of the text
MatchGroup(s) ==
    LET i == CHOOSE k \in PrefixPositions(s) : \A j \in PrefixPositions(s) : k <= j
    IN  SplitLines(LStrip(SubSeq(s, i + 1, Len(s))))[1]

\* the function without its single-line heuristic
extract_final_answer_prefix_only(response) ==
    IF PrefixPositions(response) # {}
    THEN Found(Strip(MatchGroup(response)))
    ELSE LET lines == SplitLines(Strip(response))
         IN  IF Len(lines) > 1 /\ Strip(lines[Len(lines) - 1]) \in
                                     {<<p>> : p \in AnswerPrefixes}
             THEN Found(Strip(lines[Len(lines)]))
             ELSE NoAnswer

extract_final_answer(response) ==
    IF PrefixPositions(response) # {}
    THEN Found(Strip(MatchGroup(response)))
    ELSE LET lines == SplitLines(Strip(response))
         IN  IF Len(lines) > 1 /\ Strip(lines[Len(lines) - 1]) \in
                                     {<<p>> : p \in AnswerPrefixes}
             THEN Found(Strip(lines[Len(lines)]))
             ELSE IF Len(lines) = 1 THEN Found(Strip(lines[1]))
             ELSE NoAnswer

Sentinel == <<"NO_FINAL_ANSWER_FOUND">>

\* final_answer after "if not final_answer": None and "" give the sentinel
FinalAnswer(text) ==
    LET a == extract_final_answer(text)
    IN  IF ~a.found \/ a.text = <<>> THEN Sentinel ELSE a.text

NoResult == [kind |-> "none", reasoning_trace |-> NoMsg]

\* an error record that also carries an answer
ErrorRecordWithAnswer ==
    [kind |-> "error", error |-> "exception", status |-> "failed",
     model_answer |-> Sentinel, reasoning_trace |-> NoMsg]

\* {"task_id", "error", "status": "failed", "reasoning_trace": None}
ErrorRecord ==
    [kind |-> "error", error |-> "exception", status |-> "failed",
     reasoning_trace |-> NoMsg]

\* {"task_id", "model_answer", "reasoning_trace": final_response_text}
AnswerRecord(response) ==
    [kind |-> "answer", model_answer |-> FinalAnswer(response.text),
     reasoning_trace |-> response]

\* the user's query, "[user]: " + user_query_with_path + "\n"
UserMsg == Msg("user", -1, <<"x">>)

\* session = create_session(...) is the driver's own copy of the stored
\* session; with a supported attached file the driver sets chat_history in it
SeededSession == SetKey(<<>>, ChatHistoryKey, <<Entry("user", UserMsg), NL>>)

NoTrace == [written |-> FALSE, text |-> <<>>]

Written(text) == [written |-> TRUE, text |-> text]

---------------------------------------------------------------------------
(* LoopAgent *)

\* the loop condition with <= for <
LoopContinuesOffByOne(looped, max) == max = 0 \/ looped <= max

\* while not max_iterations or times_looped < max_iterations
LoopContinues(looped, max) == max = 0 \/ looped < max

\* the next sub-agent of the for loop, or the next iteration of the while loop
LoopAdvance ==
    IF sub_idx < Len(SubAgents)
    THEN /\ sub_idx' = sub_idx + 1
         /\ UNCHANGED <<times_looped, ctl>>
    ELSE /\ sub_idx' = 1
         /\ times_looped' = times_looped + 1
         /\ ctl' = IF LoopContinues(times_looped + 1, max_iterations)
                   THEN "RUNNING" ELSE "EXHAUSTED"

Current(name) == ctl = "RUNNING" /\ SubAgents[sub_idx] = name

Begin(name) == started' = [started EXCEPT ![name] = @ + 1]

End(name) == completed' = [completed EXCEPT ![name] = @ + 1]

\* an exception after which the loop goes on
RaiseAndGoOn(name) ==
    /\ failed_by' = name
    /\ UNCHANGED <<ctl, result, driver_pc>>

\* an exception leaves the loop, the runner and the driver's try block
Raise(name) ==
    /\ ctl' = "ERROR"
    /\ failed_by' = name
    /\ result' = ErrorRecord
    /\ driver_pc' = "write_result"

\* an LlmAgent's final event with content: output_key is written, and the
\* driver's loop over the events keeps it as final_response
ReplyUnder(name, key, text) ==
    LET m == Msg(name, times_looped, text)
    IN  /\ state' = SetKey(state, key, m)
        /\ key_order' = OrderAfterSet(key_order, state, key)
        /\ final_response' = m
        /\ produced' = produced \cup {m}

\* the agents of the GAIA team: output_key is <name>_message
Reply(name, text) == ReplyUnder(name, OutputKey(name), text)

---------------------------------------------------------------------------
(* Working_Group: ParallelAgent over the participants *)

\* the group without its first agent
WorkingGroupAgentsSkipsFirst == group_agents \ {ParticipantNames[1]}

\* sub_agents of the ParallelAgent
WorkingGroupAgents == group_agents

\* run_async of every agent in the set is entered once
Invoke(agents) ==
    invocations' = [a \in DOMAIN invocations |->
                       IF a \in agents THEN invocations[a] + 1 ELSE invocations[a]]

StartWorkingGroup ==
    /\ Current("Working_Group") /\ ~active
    /\ active' = TRUE
    /\ inflight' = WorkingGroupAgents
    /\ Invoke(WorkingGroupAgents)
    /\ Begin("Working_Group")
    /\ UNCHANGED <<toolVars, max_iterations, times_looped, sub_idx, ctl, state, key_order,
                   final_response, result, failed_by, completed, produced,
                   folded, tag_input, tag_result,
                   group_agents, driver_session, driver_pc, results_file, trace_out>>

ParticipantReply(p, text) ==
    /\ Current("Working_Group") /\ active /\ p \in inflight
    /\ Reply(p, text)
    /\ inflight' = inflight \ {p}
    /\ UNCHANGED <<toolVars, max_iterations, times_looped, sub_idx, active, ctl, result,
                   failed_by, started, completed, folded, tag_input, tag_result,
                   group_agents, invocations, driver_session, driver_pc, results_file, trace_out>>

\* a final event without content: output_key is not written
ParticipantEmpty(p) ==
    /\ Current("Working_Group") /\ active /\ p \in inflight
    /\ inflight' = inflight \ {p}
    /\ UNCHANGED <<toolVars, max_iterations, times_looped, sub_idx, active, ctl, state,
                   key_order, final_response, result, failed_by, started,
                   completed, produced, folded, tag_input, tag_result,
                   group_agents, invocations, driver_session, driver_pc, results_file, trace_out>>

\* the exception of one sub-agent's task leaves the ParallelAgent
ParticipantThrows(p) ==
    /\ Current("Working_Group") /\ active /\ p \in inflight
    /\ Raise(p)
    /\ UNCHANGED <<toolVars, max_iterations, times_looped, sub_idx, active, inflight,
                   state, key_order, final_response, started, completed,
                   produced, folded, tag_input, tag_result,
                   group_agents, invocations, driver_session, results_file, trace_out>>

\* the ParallelAgent returning while sub-agents are still running
FinishWorkingGroupEarly ==
    /\ Current("Working_Group") /\ active
    /\ active' = FALSE
    /\ End("Working_Group")
    /\ LoopAdvance
    /\ UNCHANGED <<toolVars, max_iterations, inflight, state, key_order, final_response,
                   result, failed_by, started, produced, folded, tag_input,
                   tag_result,
                   group_agents, invocations, driver_session, driver_pc, results_file, trace_out>>

\* _merge_agent_run is exhausted only when every sub-agent's task is done
FinishWorkingGroup ==
    /\ Current("Working_Group") /\ active /\ inflight = {}
    /\ active' = FALSE
    /\ End("Working_Group")
    /\ LoopAdvance
    /\ UNCHANGED <<toolVars, max_iterations, inflight, state, key_order, final_response,
                   result, failed_by, started, produced, folded, tag_input,
                   tag_result,
                   group_agents, invocations, driver_session, driver_pc, results_file, trace_out>>

---------------------------------------------------------------------------
(* Coordinator *)

StartCoordinator ==
    /\ Current("Coordinator") /\ ~active
    /\ active' = TRUE
    /\ Invoke({CoordinatorName})
    /\ Begin("Coordinator")
    /\ UNCHANGED <<toolVars, max_iterations, times_looped, sub_idx, inflight, ctl, state,
                   key_order, final_response, result, failed_by, completed,
                   produced, folded, tag_input, tag_result,
                   group_agents, driver_session, driver_pc, results_file, trace_out>>

\* the final event of a coordinator agent whose output_key is the given key
CoordinatorReplyUnder(key, text) ==
    /\ Current("Coordinator") /\ active
    /\ ReplyUnder(CoordinatorName, key, text)
    /\ active' = FALSE
    /\ End("Coordinator")
    /\ LoopAdvance
    /\ UNCHANGED <<toolVars, max_iterations, inflight, result, failed_by, started,
                   folded, tag_input, tag_result,
                   group_agents, invocations, driver_session, driver_pc, results_file, trace_out>>

CoordinatorReply(text) ==
    /\ Current("Coordinator") /\ active
    /\ Reply(CoordinatorName, text)
    /\ active' = FALSE
    /\ End("Coordinator")
    /\ LoopAdvance
    /\ UNCHANGED <<toolVars, max_iterations, inflight, result, failed_by, started,
                   folded, tag_input, tag_result,
                   group_agents, invocations, driver_session, driver_pc, results_file, trace_out>>

CoordinatorEmpty ==
    /\ Current("Coordinator") /\ active
    /\ active' = FALSE
    /\ End("Coordinator")
    /\ LoopAdvance
    /\ UNCHANGED <<toolVars, max_iterations, inflight, state, key_order, final_response,
                   result, failed_by, started, produced, folded, tag_input,
                   tag_result,
                   group_agents, invocations, driver_session, driver_pc, results_file, trace_out>>

CoordinatorThrows ==
    /\ Current("Coordinator") /\ active
    /\ Raise(CoordinatorName)
    /\ UNCHANGED <<toolVars, max_iterations, times_looped, sub_idx, active, inflight,
                   state, key_order, final_response, started, completed,
                   produced, folded, tag_input, tag_result,
                   group_agents, invocations, driver_session, results_file, trace_out>>

---------------------------------------------------------------------------
(* Update_Chat_History and Check_Consensus *)

\* the body of _UpdateChatHistory._run_async_impl: the event's state_delta
\* sets chat_history
FoldMessages ==
    /\ state' = SetKey(state, ChatHistoryKey, UpdatedChatHistory(state, key_order))
    /\ key_order' = OrderAfterSet(key_order, state, ChatHistoryKey)
    /\ folded' = Append(folded, NewMessages(state, key_order))

UpdateChatHistory ==
    /\ Current("Update_Chat_History") /\ ~active
    /\ FoldMessages
    /\ Begin("Update_Chat_History")
    /\ End("Update_Chat_History")
    /\ LoopAdvance
    /\ UNCHANGED <<toolVars, max_iterations, active, inflight, final_response, result,
                   failed_by, produced, tag_input, tag_result,
                   group_agents, invocations, driver_session, driver_pc, results_file, trace_out>>

\* the check with the loop not looking at the escalate flag
CheckConsensusFlagIgnored ==
    /\ Current("Check_Consensus") /\ ~active
    /\ Begin("Check_Consensus")
    /\ End("Check_Consensus")
    /\ LoopAdvance
    /\ UNCHANGED <<toolVars, max_iterations, active, inflight, state, key_order,
                   final_response, result, failed_by, produced, folded,
                   tag_input, tag_result,
                   group_agents, invocations, driver_session, driver_pc, results_file, trace_out>>

\* _CheckConsensusAndEscalate, and the loop's return on an escalating event
CheckConsensus ==
    /\ Current("Check_Consensus") /\ ~active
    /\ Begin("Check_Consensus")
    /\ End("Check_Consensus")
    /\ IF EscalateFlag(state)
       THEN /\ ctl' = "CONSENSUS_REACHED"
            /\ UNCHANGED <<times_looped, sub_idx>>
       ELSE LoopAdvance
    /\ UNCHANGED <<toolVars, max_iterations, active, inflight, state, key_order,
                   final_response, result, failed_by, produced, folded,
                   tag_input, tag_result,
                   group_agents, invocations, driver_session, driver_pc, results_file, trace_out>>

---------------------------------------------------------------------------
(* The driver, after the runner's event stream has ended *)

\* a driver whose final_response starts as an empty response
BuildResultFromEmptyResponse ==
    /\ ctl \in {"CONSENSUS_REACHED", "EXHAUSTED"}
    /\ result = NoResult
    /\ result' = AnswerRecord(final_response)
    /\ driver_pc' = "write_result"
    /\ UNCHANGED <<toolVars, max_iterations, times_looped, sub_idx, active, inflight, ctl,
                   state, key_order, final_response, failed_by, started,
                   completed, produced, folded, tag_input, tag_result,
                   group_agents, invocations, driver_session, results_file, trace_out>>

\* final_response is unbound when no event carried content: the
\* UnboundLocalError is caught by the except clause
BuildResult ==
    /\ ctl \in {"CONSENSUS_REACHED", "EXHAUSTED"}
    /\ result = NoResult
    /\ result' = IF final_response = NoMsg
                 THEN ErrorRecord
                 ELSE AnswerRecord(final_response)
    /\ driver_pc' = "write_result"
    /\ UNCHANGED <<toolVars, max_iterations, times_looped, sub_idx, active, inflight, ctl,
                   state, key_order, final_response, failed_by, started,
                   completed, produced, folded, tag_input, tag_result,
                   group_agents, invocations, driver_session, results_file, trace_out>>

\* a supported file is attached to the task: before the run the driver sets
\* chat_history in its Session object
AttachFile ==
    /\ driver_pc = "try"
    /\ started["Working_Group"] = 0
    /\ driver_session = <<>>
    /\ driver_session' = SeededSession
    /\ UNCHANGED <<toolVars, max_iterations, times_looped, sub_idx, active, inflight, ctl,
                   state, key_order, final_response, result, failed_by, started,
                   completed, produced, folded, tag_input, tag_result,
                   group_agents, invocations, driver_pc, results_file, trace_out>>

\* f.write(json.dumps(result) + '\n')
WriteResult ==
    /\ driver_pc = "write_result"
    /\ results_file' = Append(results_file, result)
    /\ driver_pc' = "write_trace"
    /\ UNCHANGED <<toolVars, max_iterations, times_looped, sub_idx, active, inflight, ctl,
                   state, key_order, final_response, result, failed_by, started,
                   completed, produced, folded, tag_input, tag_result,
                   group_agents, invocations, driver_session, trace_out>>

\* f.write(... + session.state["chat_history"] + ...): the driver's own
\* Session object is read; a missing key is a KeyError, which the
\* except IOError clause does not catch
WriteTrace ==
    /\ driver_pc = "write_trace"
    /\ IF HasKey(driver_session, ChatHistoryKey)
       THEN /\ trace_out' = Written(driver_session[ChatHistoryKey])
            /\ driver_pc' = "finished"
       ELSE /\ trace_out' = trace_out
            /\ driver_pc' = "crashed"
    /\ UNCHANGED <<toolVars, max_iterations, times_looped, sub_idx, active, inflight, ctl,
                   state, key_order, final_response, result, failed_by, started,
                   completed, produced, folded, tag_input, tag_result,
                   group_agents, invocations, driver_session, results_file>>

---------------------------------------------------------------------------
(* Tools: unzip_file.  A path is <<directory, part, ..., part>>, the parts
   being what the dots of the file name separate. *)

ArchiveFiles ==
    { <<"a", "report", "zip">>,
      <<"b", "report", "zip">>,
      <<"a", "report", "TAR", "gz">>,
      <<"a", "broken", "zip">>,
      <<"a", "empty", "zip">> }

\* what the tool can be called with: the archives, a path that does not
\* exist and a directory
UnzipPaths == ArchiveFiles \cup {<<"a", "missing", "zip">>, <<"a", "folder">>}

PathKind(path) ==
    IF path \in ArchiveFiles THEN "file"
    ELSE IF path = <<"a", "folder">> THEN "dir"
    ELSE "missing"

\* str.lower() on a part of a name
LowerPart(part) == IF part = "TAR" THEN "tar" ELSE part

\* pathlib's stem: the name without its last suffix
PathStem(name) == IF Len(name) > 1 THEN SubSeq(name, 1, Len(name) - 1) ELSE name

\* file_name_stem of unzip_file
FileNameStem(path) ==
    LET stem == PathStem(Tail(path))
    IN  IF Len(stem) > 1 /\ LowerPart(stem[Len(stem)]) = "tar"
        THEN PathStem(stem)
        ELSE stem

\* the members of each archive; _extract_archive fails on the broken one
Members(path) ==
    IF path = <<"a", "empty", "zip">> \/ path = <<"a", "broken", "zip">> THEN {}
    ELSE {[from |-> path, entry |-> "data"]}

Extractable(path) == path # <<"a", "broken", "zip">>

\* what a failed extraction may leave behind
PartialMembers(path) == {[from |-> path, entry |-> "partial"]}

AbsentDir == [exists |-> FALSE, items |-> {}]

Dir(items) == [exists |-> TRUE, items |-> items]

ExtractDirNames == {FileNameStem(f) : f \in ArchiveFiles}

\* what the environment does during a call: whether mkdir succeeds, whether
\* a failing extraction leaves files, whether rmtree succeeds
UnzipFaults == [mkdir_ok : BOOLEAN, partial : BOOLEAN, cleanup_ok : BOOLEAN]

UnzipError(message) ==
    [status |-> "error", extracted_files |-> {}, message |-> message]

UnzipSuccess(dir, files, message) ==
    [status |-> "success", extract_dir |-> dir, extracted_files |-> files,
     message |-> message]

\* unzip_file: the returned dictionary and the directories after the call
unzip_file(file_path, dirs, fault) ==
    LET d == FileNameStem(file_path)
    IN  IF unzip_base_path = ""
        THEN [ret |-> UnzipError("UNZIP_PATH is not set"), dirs |-> dirs]
        ELSE IF PathKind(file_path) = "missing"
        THEN [ret |-> UnzipError("does not exist"), dirs |-> dirs]
        ELSE IF PathKind(file_path) # "file"
        THEN [ret |-> UnzipError("is not a file"), dirs |-> dirs]
        ELSE IF dirs[d].exists /\ dirs[d].items # {}
        THEN [ret |-> UnzipSuccess(d, dirs[d].items, "already extracted"),
              dirs |-> dirs]
        ELSE IF ~fault.mkdir_ok
        THEN [ret |-> UnzipError("error creating extraction directory"),
              dirs |-> dirs]
        ELSE IF Extractable(file_path)
        THEN [ret |-> UnzipSuccess(d, Members(file_path), "extracted"),
              dirs |-> [dirs EXCEPT ![d] = Dir(Members(file_path))]]
        ELSE [ret |-> UnzipError("failed to extract"),
              dirs |-> [dirs EXCEPT ![d] =
                          IF fault.cleanup_ok THEN AbsentDir
                          ELSE Dir(IF fault.partial
                                   THEN PartialMembers(file_path) ELSE {})]]

NoUnzipReturn == [call |-> <<>>, ret |-> [status |-> "none"]]

NoExecInput == [given |-> FALSE]

NoExecReturn == [status |-> "none"]

\* no tool has been called
ToolsIdle ==
    /\ unzip_base_path = ""
    /\ extract_dirs = [d \in ExtractDirNames |-> AbsentDir]
    /\ unzip_ret = NoUnzipReturn
    /\ unzip_calls = 0
    /\ exec_input = NoExecInput
    /\ exec_ret = NoExecReturn

\* the group chat has not been started
RunIdle ==
    /\ max_iterations = 1
    /\ times_looped = 0
    /\ sub_idx = 1
    /\ active = FALSE
    /\ inflight = {}
    /\ ctl = "RUNNING"
    /\ state = <<>>
    /\ key_order = <<>>
    /\ final_response = NoMsg
    /\ result = NoResult
    /\ failed_by = "none"
    /\ started = [s \in StepNames |-> 0]
    /\ completed = [s \in StepNames |-> 0]
    /\ produced = {}
    /\ folded = <<>>
    /\ tag_input = [present |-> FALSE, text |-> <<>>]
    /\ tag_result = "none"
    /\ group_agents = Participants
    /\ invocations = [a \in AgentNames |-> 0]
    /\ driver_session = <<>>
    /\ driver_pc = "try"
    /\ results_file = <<>>
    /\ trace_out = NoTrace

UnzipInit ==
    /\ RunIdle
    /\ unzip_base_path \in {"", "unzip"}
    /\ extract_dirs = [d \in ExtractDirNames |-> AbsentDir]
    /\ unzip_ret = NoUnzipReturn
    /\ unzip_calls = 0
    /\ exec_input = NoExecInput
    /\ exec_ret = NoExecReturn

\* one call of the tool
UnzipCall ==
    /\ unzip_calls < MaxUnzipCalls
    /\ \E file_path \in UnzipPaths, fault \in UnzipFaults :
          LET r == unzip_file(file_path, extract_dirs, fault)
          IN  /\ unzip_ret' = [call |-> file_path, ret |-> r.ret]
              /\ extract_dirs' = r.dirs
    /\ unzip_calls' = unzip_calls + 1
    /\ UNCHANGED <<runVars, unzip_base_path, exec_input, exec_ret>>

UnzipNext == UnzipCall

UnzipSpec == UnzipInit /\ [][UnzipNext]_vars

---------------------------------------------------------------------------
(* Tools: execute_python_code.  The input names the arguments given and what
   each step of the call meets in its environment. *)

ExecInputs ==
    [given : {TRUE},
     tempdir : {"ok", "fails"},
     venv : {"ok", "error"},
     external_path : {"none", "missing", "copied", "copy_fails"},
     required_packages : {"none", "installed", "error"},
     write_script : {"ok", "fails"},
     exec : {"exit_0", "exit_1", "timeout", "exception"},
     return_file : {"none", "read", "unreadable", "absent"},
     cleanup : {"ok", "raises"}]

ExecReturn(status, output, message) ==
    [status |-> status, output |-> output, message |-> message]

\* steps 5 to 7: the values of result_status, result_output and
\* result_message when the block of the temporary directory is left
ExecuteAndCheck(inp) ==
    IF inp.exec = "timeout"
    THEN ExecReturn("error", "None", "timed out")
    ELSE IF inp.exec = "exception"
    THEN ExecReturn("error", "None", "error during script execution")
    ELSE IF inp.exec # "exit_0"
    THEN ExecReturn("error", "None", "execution error")
    ELSE IF inp.return_file = "none"
    THEN ExecReturn("success", "stdout", "execution successful")
    ELSE IF inp.return_file = "read"
    THEN ExecReturn("success", "return_file_content", "content returned")
    ELSE ExecReturn("error", "None", "return_file not found or unreadable")

\* the locals at the moment the block of the temporary directory is left,
\* by a return statement or at its end
ExecBody(inp) ==
    IF inp.venv # "ok"
    THEN ExecReturn("error", "None", "error creating virtual environment")
    ELSE IF inp.external_path = "missing"
    THEN ExecReturn("error", "None", "external_path not found")
    ELSE IF inp.external_path = "copy_fails"
    THEN ExecReturn("error", "None", "error copying external_path")
    ELSE IF inp.required_packages = "error"
    THEN ExecReturn("error", "None", "error installing packages")
    ELSE IF inp.write_script # "ok"
    THEN ExecReturn("error", "None", "error writing script file")
    ELSE ExecuteAndCheck(inp)

\* execute_python_code: an exception of the temporary directory, on creation
\* or on cleanup, resets status and message and keeps result_output
execute_python_code(inp) ==
    IF inp.tempdir # "ok"
    THEN ExecReturn("error", "None", "error setting up execution environment")
    ELSE IF inp.cleanup # "ok"
    THEN ExecReturn("error", ExecBody(inp).output,
                    "error setting up execution environment")
    ELSE ExecBody(inp)

ExecInit ==
    /\ RunIdle
    /\ unzip_base_path = ""
    /\ extract_dirs = [d \in ExtractDirNames |-> AbsentDir]
    /\ unzip_ret = NoUnzipReturn
    /\ unzip_calls = 0
    /\ exec_input \in ExecInputs
    /\ exec_ret = NoExecReturn

ExecCall ==
    /\ exec_ret = NoExecReturn
    /\ exec_ret' = execute_python_code(exec_input)
    /\ UNCHANGED <<runVars, unzip_base_path, extract_dirs, unzip_ret,
                   unzip_calls, exec_input>>

ExecNext == ExecCall

ExecSpec == ExecInit /\ [][ExecNext]_vars

---------------------------------------------------------------------------
(* Specification of one task's run *)

AbsentInput == [present |-> FALSE, text |-> <<>>]

Init ==
    /\ max_iterations \in 1..MaxIterBound
    /\ times_looped = 0
    /\ sub_idx = 1
    /\ active = FALSE
    /\ inflight = {}
    /\ ctl = "RUNNING"
    /\ state = <<>>
    /\ key_order = <<>>
    /\ final_response = NoMsg
    /\ result = NoResult
    /\ failed_by = "none"
    /\ started = [s \in StepNames |-> 0]
    /\ completed = [s \in StepNames |-> 0]
    /\ produced = {}
    /\ folded = <<>>
    /\ tag_input = AbsentInput
    /\ tag_result = "none"
    /\ group_agents = Participants
    /\ invocations = [a \in AgentNames |-> 0]
    /\ driver_session = <<>>
    /\ driver_pc = "try"
    /\ results_file = <<>>
    /\ trace_out = NoTrace
    /\ ToolsIdle

Next ==
    \/ AttachFile
    \/ StartWorkingGroup
    \/ \E p \in Participants : \E text \in ParticipantTexts : ParticipantReply(p, text)
    \/ \E p \in Participants : ParticipantEmpty(p)
    \/ \E p \in Participants : ParticipantThrows(p)
    \/ FinishWorkingGroup
    \/ StartCoordinator
    \/ \E text \in CoordinatorTexts : CoordinatorReply(text)
    \/ CoordinatorEmpty
    \/ CoordinatorThrows
    \/ UpdateChatHistory
    \/ CheckConsensus
    \/ BuildResult
    \/ WriteResult
    \/ WriteTrace

Spec == Init /\ [][Next]_vars

---------------------------------------------------------------------------
(* Specification of the consensus detector alone: every coordinator value   *)
(* up to MaxTextLen tokens, or no value at all, is handed to the detector.  *)

TagInputs ==
    {AbsentInput} \cup {[present |-> TRUE, text |-> t] : t \in Texts(MaxTextLen)}

\* a session state in which a participant quotes the marker
QuotingState ==
    SetKey(<<>>, OutputKey(ParticipantNames[1]),
           Msg(ParticipantNames[1], 0, <<"<", "consensus_reached", "/", ">">>))

\* that state with the coordinator's key holding the input, if any
TagState(input) ==
    IF input.present
    THEN SetKey(QuotingState, OutputKey(CoordinatorName),
                Msg(CoordinatorName, 0, input.text))
    ELSE QuotingState

TagInit ==
    /\ max_iterations = 1
    /\ times_looped = 0
    /\ sub_idx = 1
    /\ active = FALSE
    /\ inflight = {}
    /\ ctl = "RUNNING"
    /\ state = <<>>
    /\ key_order = <<>>
    /\ final_response = NoMsg
    /\ result = NoResult
    /\ failed_by = "none"
    /\ started = [s \in StepNames |-> 0]
    /\ completed = [s \in StepNames |-> 0]
    /\ produced = {}
    /\ folded = <<>>
    /\ tag_input \in TagInputs
    /\ tag_result = "none"
    /\ group_agents = Participants
    /\ invocations = [a \in AgentNames |-> 0]
    /\ driver_session = <<>>
    /\ driver_pc = "try"
    /\ results_file = <<>>
    /\ trace_out = NoTrace
    /\ ToolsIdle

\* _CheckConsensusAndEscalate on the state holding the input
RunDetector ==
    /\ tag_result = "none"
    /\ tag_result' = IF EscalateFlag(TagState(tag_input)) THEN "true" ELSE "false"
    /\ UNCHANGED <<toolVars, max_iterations, times_looped, sub_idx, active, inflight, ctl,
                   state, key_order, final_response, result, failed_by, started,
                   completed, produced, folded, tag_input,
                   group_agents, invocations, driver_session, driver_pc, results_file, trace_out>>

TagNext == RunDetector

TagSpec == TagInit /\ [][TagNext]_vars

---------------------------------------------------------------------------
(* Vocabulary of the properties *)

CaseVariants == {"consensus_reached", "CONSENSUS_REACHED"}

Contains(text, sub) ==
    \E i \in 0..(Len(text) - Len(sub)) : SubSeq(text, i + 1, i + Len(sub)) = sub

Spaces(n) == [i \in 1..n |-> " "]

\* <consensus_reached/> or <consensus_reached>, in any letter case
LiteralMarker(text) ==
    \E t \in CaseVariants :
        Contains(text, <<"<", t, "/", ">">>) \/ Contains(text, <<"<", t, ">">>)

\* as LiteralMarker, and whitespace may precede the slash of the self-closing tag
MarkerForm(text) ==
    \E t \in CaseVariants :
        \/ Contains(text, <<"<", t, ">">>)
        \/ \E n \in 0..Len(text) : Contains(text, (<<"<", t>> \o Spaces(n)) \o <<"/", ">">>)

IsPrefix(a, b) == Len(a) <= Len(b) /\ SubSeq(b, 1, Len(a)) = a

ClaimedOrder ==
    <<"Working_Group", "Coordinator", "Update_Chat_History", "Check_Consensus">>

CoordinatorMessages == {m \in produced : m.by = CoordinatorName}

NoMarkerEver == \A m \in CoordinatorMessages : ~MarkerForm(m.text)

\* the index of the last round that was executed, once the loop has stopped
LastRound == IF ctl = "EXHAUSTED" THEN times_looped - 1 ELSE times_looped

\* the transcript that renders the given updates, one after the other
RECURSIVE Render(_)
Render(blocks) ==
    IF blocks = <<>> THEN <<>>
    ELSE (Render(SubSeq(blocks, 1, Len(blocks) - 1)) \o <<NL>>)
         \o JoinLines(blocks[Len(blocks)])

\* the positions of chat_history that hold the rendered message m
Occurrences(m) ==
    {i \in DOMAIN ChatHistory(state) :
        /\ ChatHistory(state)[i].kind = "entry"
        /\ ChatHistory(state)[i].message = m}

---------------------------------------------------------------------------
(* The transcript updater applied to arbitrary session states *)

Perms(S) ==
    {f \in [1..Cardinality(S) -> S] : \A i, j \in DOMAIN f : i # j => f[i] # f[j]}

MessageKeySet == {OutputKey(a) : a \in Participants \cup {CoordinatorName}}

NoHistory == [present |-> FALSE, text |-> <<>>]

\* chat_history as an earlier update left it
PriorHistories ==
    {NoHistory} \cup
    {[present |-> TRUE, text |-> h] :
        h \in {<<NL>>,
               UpdatedChatHistory(QuotingState, <<OutputKey(ParticipantNames[1])>>)}}

\* a session state: the given message keys, holding messages of the given
\* round, and the given chat_history
Snapshot(keys, rnd, ctext, h) ==
    [k \in keys \cup (IF h.present THEN {ChatHistoryKey} ELSE {}) |->
        IF k = ChatHistoryKey THEN h.text
        ELSE Msg(k[1], rnd, IF k = ConsensusKey THEN ctext ELSE <<"x">>)]

\* the group of the scenarios: three participants and the coordinator, with
\* max_iterations 1, 2 or 3; every agent answers in every round
ScenarioParticipants == {ParticipantNames[i] : i \in 1..3}

ScenarioInit ==
    /\ max_iterations \in 1..3
    /\ times_looped = 0
    /\ sub_idx = 1
    /\ active = FALSE
    /\ inflight = {}
    /\ ctl = "RUNNING"
    /\ state = <<>>
    /\ key_order = <<>>
    /\ final_response = NoMsg
    /\ result = NoResult
    /\ failed_by = "none"
    /\ started = [s \in StepNames |-> 0]
    /\ completed = [s \in StepNames |-> 0]
    /\ produced = {}
    /\ folded = <<>>
    /\ tag_input = AbsentInput
    /\ tag_result = "none"
    /\ group_agents = ScenarioParticipants
    /\ invocations = [a \in AgentNames |-> 0]
    /\ driver_session = <<>>
    /\ driver_pc = "try"
    /\ results_file = <<>>
    /\ trace_out = NoTrace
    /\ ToolsIdle

ScenarioNext ==
    \/ StartWorkingGroup
    \/ \E p \in ScenarioParticipants :
          \E text \in ParticipantTexts : ParticipantReply(p, text)
    \/ FinishWorkingGroup
    \/ StartCoordinator
    \/ \E text \in CoordinatorTexts : CoordinatorReply(text)
    \/ UpdateChatHistory
    \/ CheckConsensus
    \/ BuildResult
    \/ WriteResult
    \/ WriteTrace

ScenarioSpec == ScenarioInit /\ [][ScenarioNext]_vars

\* a group whose coordinator agent has an output_key other than
\* Coordinator_message: another name, another letter case, no suffix
OtherCoordinatorKeys ==
    {<<"Lead", "_message">>, <<"coordinator", "_message">>, <<"final_output">>}

\* the key is the same in every round of a run
KeyInUse(key) == \A k \in OtherCoordinatorKeys : HasKey(state, k) => k = key

OtherKeyNext ==
    \/ StartWorkingGroup
    \/ \E p \in Participants : \E text \in ParticipantTexts : ParticipantReply(p, text)
    \/ \E p \in Participants : ParticipantEmpty(p)
    \/ \E p \in Participants : ParticipantThrows(p)
    \/ FinishWorkingGroup
    \/ StartCoordinator
    \/ \E key \in OtherCoordinatorKeys : \E text \in CoordinatorTexts :
          KeyInUse(key) /\ CoordinatorReplyUnder(key, text)
    \/ CoordinatorEmpty
    \/ CoordinatorThrows
    \/ UpdateChatHistory
    \/ CheckConsensus
    \/ BuildResult
    \/ WriteResult
    \/ WriteTrace

OtherKeySpec == Init /\ [][OtherKeyNext]_vars

\* one round in which the participants send no content and the coordinator
\* answers with any response text; the driver then builds the record
AnswerInit ==
    /\ max_iterations = 1
    /\ times_looped = 0
    /\ sub_idx = 1
    /\ active = FALSE
    /\ inflight = {}
    /\ ctl = "RUNNING"
    /\ state = <<>>
    /\ key_order = <<>>
    /\ final_response = NoMsg
    /\ result = NoResult
    /\ failed_by = "none"
    /\ started = [s \in StepNames |-> 0]
    /\ completed = [s \in StepNames |-> 0]
    /\ produced = {}
    /\ folded = <<>>
    /\ tag_input = AbsentInput
    /\ tag_result = "none"
    /\ group_agents = Participants
    /\ invocations = [a \in AgentNames |-> 0]
    /\ driver_session \in {<<>>, SeededSession}
    /\ driver_pc = "try"
    /\ results_file = <<>>
    /\ trace_out = NoTrace
    /\ ToolsIdle

AnswerNext ==
    \/ StartWorkingGroup
    \/ \E p \in Participants : ParticipantEmpty(p)
    \/ FinishWorkingGroup
    \/ StartCoordinator
    \/ \E text \in AnswerTexts : CoordinatorReply(text)
    \/ UpdateChatHistory
    \/ CheckConsensus
    \/ BuildResult
    \/ WriteResult
    \/ WriteTrace

AnswerSpec == AnswerInit /\ [][AnswerNext]_vars

FoldInit ==
    /\ max_iterations = 1
    /\ times_looped = 0
    /\ sub_idx = 3
    /\ active = FALSE
    /\ inflight = {}
    /\ ctl = "RUNNING"
    /\ \E keys \in SUBSET MessageKeySet, ctext \in CoordinatorTexts,
          h \in PriorHistories :
          /\ state = Snapshot(keys, IF h.present THEN 1 ELSE 0, ctext, h)
          /\ key_order \in Perms(DOMAIN state)
    /\ final_response = NoMsg
    /\ result = NoResult
    /\ failed_by = "none"
    /\ started = [s \in StepNames |-> 0]
    /\ completed = [s \in StepNames |-> 0]
    /\ produced = {}
    /\ folded = <<>>
    /\ tag_input = AbsentInput
    /\ tag_result = "none"
    /\ group_agents = Participants
    /\ invocations = [a \in AgentNames |-> 0]
    /\ driver_session = <<>>
    /\ driver_pc = "try"
    /\ results_file = <<>>
    /\ trace_out = NoTrace
    /\ ToolsIdle

\* _UpdateChatHistory run on the session, up to twice, with no agent
\* invoked in between
RunUpdater ==
    /\ Len(folded) < 2
    /\ FoldMessages
    /\ UNCHANGED <<toolVars, max_iterations, times_looped, sub_idx, active, inflight, ctl,
                   final_response, result, failed_by, started, completed,
                   produced, tag_input, tag_result, group_agents, invocations,
                   driver_session, driver_pc, results_file, trace_out>>

FoldNext == RunUpdater

FoldSpec == FoldInit /\ [][FoldNext]_vars

---------------------------------------------------------------------------
(* Properties *)

\* C1: once the consensus check of round i has run on a coordinator message
\* of round i that contains the marker, the controller is in
\* CONSENSUS_REACHED, also when i + 1 = max_iterations, and every step has
\* run exactly i + 1 times: nothing runs after that check.
C1_ConsensusStopsTheLoop ==
    \A m \in CoordinatorMessages :
        (LiteralMarker(m.text) /\ completed["Check_Consensus"] > m.rnd)
        => /\ ctl = "CONSENSUS_REACHED"
           /\ times_looped = m.rnd
           /\ \A s \in StepNames :
                 started[s] = m.rnd + 1 /\ completed[s] = m.rnd + 1

C1_Witness ==
    /\ ctl = "CONSENSUS_REACHED"
    /\ max_iterations = MaxIterBound
    /\ times_looped + 1 = max_iterations
    /\ \E m \in CoordinatorMessages : LiteralMarker(m.text) /\ m.rnd = times_looped

C3_StepsInFixedOrder ==
    /\ \A s \in StepNames : completed[s] <= started[s] /\ started[s] <= completed[s] + 1
    /\ \A i \in 2..4 :
          /\ started[ClaimedOrder[i]] <= completed[ClaimedOrder[i - 1]]
          /\ completed[ClaimedOrder[i - 1]] <= started[ClaimedOrder[i]] + 1
    /\ started[ClaimedOrder[1]] <= completed[ClaimedOrder[4]] + 1

C3_Witness ==
    /\ started["Coordinator"] = 2
    /\ completed["Coordinator"] = 1
    /\ completed["Check_Consensus"] = 1
    /\ completed["Working_Group"] = 2

\* C4: every step leaves the earlier chat_history as a prefix of the later
\* one, the key is never removed, and a transcript update makes it strictly
\* longer.
C4_ChatHistoryAppendOnly ==
    [][ /\ IsPrefix(ChatHistory(state), ChatHistory(state'))
        /\ HasKey(state, ChatHistoryKey) => HasKey(state', ChatHistoryKey)
        /\ completed'["Update_Chat_History"] # completed["Update_Chat_History"]
           => Len(ChatHistory(state)) < Len(ChatHistory(state')) ]_vars

C4_Witness ==
    /\ completed["Update_Chat_History"] = 2
    /\ Len(folded[1]) = NumParticipants + 1
    /\ IsPrefix(Render(<<folded[1]>>), ChatHistory(state))
    /\ Len(ChatHistory(state)) > Len(Render(<<folded[1]>>))

\* C5: every message produced in a round whose transcript update has run
\* is rendered in chat_history exactly once, and the update of round k
\* appends only messages produced in round k.
C5_EachMessageOnceInItsRound ==
    /\ \A k \in 1..Len(folded) : \A j \in 1..Len(folded[k]) :
          folded[k][j].message.rnd = k - 1
    /\ \A m \in produced :
          m.rnd < completed["Update_Chat_History"] => Cardinality(Occurrences(m)) = 1

\* C6: a participant whose call raises does not end the run: the controller
\* does not stop with an error and the driver records no error for it.
C6_ParticipantFailureIsolated ==
    failed_by \in Participants => (ctl # "ERROR" /\ result.kind # "error")

\* C7: while the coordinator of round i runs and when the transcript update
\* of round i is about to run, a participant's slot is absent unless the
\* participant produced its message in round i.
C7_SlotHoldsCurrentRoundOnly ==
    ((Current("Coordinator") /\ active) \/ Current("Update_Chat_History"))
    => \A p \in Participants :
          HasKey(state, OutputKey(p)) => state[OutputKey(p)].rnd = times_looped

\* C8: when the coordinator's call raises in round i, the transcript update
\* and the consensus check have run i times (not in round i), no step of a
\* later round has started, the result is an error record, and chat_history
\* is exactly the rendering of the updates of rounds 0..i-1, with no message
\* of round i in it.
C8_CoordinatorFailureAborts ==
    (ctl = "ERROR" /\ failed_by = CoordinatorName)
    => /\ started["Update_Chat_History"] = times_looped
       /\ completed["Update_Chat_History"] = times_looped
       /\ started["Check_Consensus"] = times_looped
       /\ completed["Check_Consensus"] = times_looped
       /\ started["Working_Group"] = times_looped + 1
       /\ started["Coordinator"] = times_looped + 1
       /\ completed["Coordinator"] = times_looped
       /\ result.kind = "error"
       /\ Len(folded) = times_looped
       /\ ChatHistory(state) = Render(folded)
       /\ \A m \in produced : m.rnd = times_looped => Occurrences(m) = {}

C8_Witness ==
    /\ ctl = "ERROR"
    /\ failed_by = CoordinatorName
    /\ times_looped = 1
    /\ Len(folded) = 1
    /\ Len(folded[1]) = NumParticipants + 1
    /\ \E m \in produced : m.rnd = 1

\* C9: when the loop has stopped in CONSENSUS_REACHED or EXHAUSTED and the
\* driver has built its record, the record is an answer record whose text is
\* the message the coordinator produced in the last executed round.
C9_FinalOutputIsLastCoordinatorMessage ==
    (ctl \in {"CONSENSUS_REACHED", "EXHAUSTED"} /\ result # NoResult)
    => /\ result.kind = "answer"
       /\ result.reasoning_trace.by = CoordinatorName
       /\ result.reasoning_trace.rnd = LastRound

---------------------------------------------------------------------------
(* C11: while the coordinator, the transcript updater or the consensus
   detector of a round is the current step, every participant of the group
   has been invoked in that round and none of these invocations is still in
   flight: each has committed its output, ended without one, or the run has
   already been aborted by its failure. *)
AfterWorkingGroup ==
    \/ Current("Coordinator")
    \/ Current("Update_Chat_History")
    \/ Current("Check_Consensus")

C11_BarrierAfterWorkingGroup ==
    AfterWorkingGroup =>
        /\ inflight = {}
        /\ \A p \in group_agents : invocations[p] = times_looped + 1

\* the coordinator of the second round runs on the slots that both
\* participants committed in that round
C11_Witness ==
    /\ Current("Coordinator") /\ active
    /\ times_looped = 1
    /\ \A p \in group_agents :
          HasKey(state, OutputKey(p)) /\ state[OutputKey(p)].rnd = 1

---------------------------------------------------------------------------
(* C12: the participants' keys are pairwise distinct and differ from
   chat_history and from the coordinator's key; whatever the interleaving,
   a step taken while the working group runs changes the session state only
   at the key of a participant that completed in this step, and afterwards
   every participant's key still holds a message of that participant. *)
ChangedKeys(old, new) ==
    {k \in DOMAIN new : ~HasKey(old, k) \/ new[k] # old[k]}

DistinctKeys ==
    /\ \A p, q \in group_agents : p # q => OutputKey(p) # OutputKey(q)
    /\ \A p \in group_agents : OutputKey(p) \notin {ChatHistoryKey, ConsensusKey}

WorkingGroupStepWritesOwnKey ==
    (Current("Working_Group") /\ active) =>
        /\ DistinctKeys
        /\ DOMAIN state \subseteq DOMAIN state'
        /\ \A k \in ChangedKeys(state, state') :
              \E p \in inflight \ inflight' : k = OutputKey(p)
        /\ \A p \in group_agents :
              HasKey(state', OutputKey(p)) => state'[OutputKey(p)].by = p

C12_ParticipantsWriteOwnKeyOnly == [][WorkingGroupStepWritesOwnKey]_vars

\* both participants committed in the first round, the second one of the
\* configuration before the first one
C12_Witness ==
    /\ Current("Working_Group") /\ active /\ inflight = {}
    /\ times_looped = 0
    /\ key_order = <<OutputKey(ParticipantNames[2]), OutputKey(ParticipantNames[1])>>
    /\ \A p \in group_agents : state[OutputKey(p)] \in produced

---------------------------------------------------------------------------
(* C13: the session state that a participant's invocation in flight can read
   holds, under the key of any other participant, only a message of an
   earlier round. *)

\* every sub-agent of the ParallelAgent runs on the one session of the
\* invocation, to which the events of its peers are applied as they arrive
VisibleState(p) == state

C13_NoSameRoundMessageVisible ==
    \A p \in inflight :
        \A q \in group_agents \ {p} :
            HasKey(VisibleState(p), OutputKey(q))
                => VisibleState(p)[OutputKey(q)].rnd < times_looped

---------------------------------------------------------------------------
(* C14: at every point of a run, with r the number of rounds started so far,
   every participant of the group has been invoked exactly r times (once in
   each round), the coordinator r or r - 1 times (at most once in each
   round), and r is the number of completed rounds or one more. *)
RoundsStarted == started["Working_Group"]

C14_EachParticipantOncePerRound ==
    /\ RoundsStarted \in {times_looped, times_looped + 1}
    /\ \A p \in group_agents : invocations[p] = RoundsStarted
    /\ invocations[CoordinatorName] \in {RoundsStarted - 1, RoundsStarted}
    /\ invocations[CoordinatorName] = started["Coordinator"]

\* two full rounds: each participant and the coordinator ran twice
C14_Witness ==
    /\ ctl = "EXHAUSTED" /\ times_looped = 2
    /\ \A p \in group_agents : invocations[p] = 2
    /\ invocations[CoordinatorName] = 2

---------------------------------------------------------------------------
(* C15: a second run of the transcript updater, with no agent invoked since
   the first one, adds no entry to chat_history: the entries of the message
   set are in it once, not twice. *)
EntryCount(h) == Cardinality({i \in DOMAIN h : h[i].kind = "entry"})

SecondFoldAddsNoEntry ==
    Len(folded) = 1 =>
        EntryCount(ChatHistory(state')) = EntryCount(ChatHistory(state))

C15_SecondFoldAddsNoEntry == [][SecondFoldAddsNoEntry]_vars

---------------------------------------------------------------------------
(* C16: in chat_history, what stands between the last entry of one update
   and the first entry of the next update differs from what stands between
   two neighbouring entries of the same update, so that the round boundaries
   can be read off the text. *)
EntryPositions(h) == {i \in DOMAIN h : h[i].kind = "entry"}

\* pairs of positions of neighbouring entries
Neighbours(h) ==
    {pr \in EntryPositions(h) \X EntryPositions(h) :
        /\ pr[1] < pr[2]
        /\ \A k \in EntryPositions(h) : ~(pr[1] < k /\ k < pr[2])}

Gap(h, pr) == SubSeq(h, pr[1] + 1, pr[2] - 1)

\* number of entries appended by the first b updates
RECURSIVE EntriesUpTo(_)
EntriesUpTo(b) == IF b = 0 THEN 0 ELSE Len(folded[b]) + EntriesUpTo(b - 1)

\* the update that appended the entry at position i
UpdateOf(h, i) ==
    LET n == Cardinality({k \in EntryPositions(h) : k <= i})
    IN  CHOOSE b \in 1..Len(folded) : EntriesUpTo(b - 1) < n /\ n <= EntriesUpTo(b)

C16_RoundBoundaryDistinguishable ==
    LET h == ChatHistory(state)
    IN  \A pr, qr \in Neighbours(h) :
            (/\ UpdateOf(h, pr[1]) = UpdateOf(h, pr[2])
             /\ UpdateOf(h, qr[1]) # UpdateOf(h, qr[2]))
            => Gap(h, pr) # Gap(h, qr)

---------------------------------------------------------------------------
(* C17: when the three participants and the coordinator produce a message in
   every round, every update appends exactly 4 entries, so chat_history
   holds 4 entries per completed update; with max_iterations = 1 and the
   marker in round 0 the run ends in CONSENSUS_REACHED after 1 round with 4
   entries, and with max_iterations = 3 and no marker it ends in EXHAUSTED
   after 3 rounds with 12 entries. *)
RoundsExecuted == completed["Check_Consensus"]

MarkerInRound(r) ==
    \E m \in CoordinatorMessages : m.rnd = r /\ MarkerForm(m.text)

C17_EntriesPerRound ==
    LET n == Cardinality(group_agents)
        entries == EntryCount(ChatHistory(state))
    IN  /\ n = 3
        /\ \A b \in DOMAIN folded : Len(folded[b]) = n + 1
        /\ entries = (n + 1) * completed["Update_Chat_History"]
        /\ (ctl # "RUNNING" /\ max_iterations = 1 /\ MarkerInRound(0))
              => (ctl = "CONSENSUS_REACHED" /\ RoundsExecuted = 1 /\ entries = 4)
        /\ (ctl # "RUNNING" /\ max_iterations = 3 /\ NoMarkerEver)
              => (ctl = "EXHAUSTED" /\ RoundsExecuted = 3 /\ entries = 12)

\* scenario B at its end
C17_Witness ==
    /\ max_iterations = 3 /\ NoMarkerEver
    /\ ctl = "EXHAUSTED"
    /\ Cardinality(group_agents) = 3
    /\ EntryCount(ChatHistory(state)) = 12
    /\ driver_pc = "write_result"

---------------------------------------------------------------------------
(* C18 as stated: when the final response holds no FINAL ANSWER: prefix, the
   record is an answer record whose answer is the sentinel and whose
   transcript field is the full response. *)
RecordBuilt == result # NoResult /\ final_response # NoMsg

NoPrefix(text) == \A i \in DOMAIN text : text[i] \notin AnswerPrefixes

C18_NoPrefixGivesSentinel ==
    (RecordBuilt /\ NoPrefix(final_response.text)) =>
        /\ result.kind = "answer"
        /\ result.reasoning_trace = final_response
        /\ result.model_answer = Sentinel

(* C18: when the final response holds no FINAL ANSWER: prefix, the record is
   an answer record whose transcript field is the full response; its answer
   is the response without its leading and trailing whitespace when that is
   a single non-empty line, and the sentinel otherwise. *)
SingleLine(text) ==
    /\ Strip(text) # <<>>
    /\ \A i \in DOMAIN Strip(text) : Strip(text)[i] # "\n"

C18_NoPrefixGivesSentinelOrSingleLine ==
    (RecordBuilt /\ NoPrefix(final_response.text)) =>
        /\ result.kind = "answer"
        /\ result.reasoning_trace = final_response
        /\ result.model_answer = IF SingleLine(final_response.text)
                                 THEN Strip(final_response.text)
                                 ELSE Sentinel

\* a two-line response without the prefix gave the sentinel
C18_Witness ==
    /\ RecordBuilt /\ NoPrefix(final_response.text)
    /\ final_response.text = <<"x", " ", "\n", "x">>
    /\ result.kind = "answer"
    /\ result.model_answer = Sentinel

---------------------------------------------------------------------------
(* C19: the task's result record is built once and never changed; it has
   exactly one of the fields model_answer and error, and after an exception
   of a step it has the error field and no model_answer; the results file
   receives this record, once. *)
HasAnswer(r) == "model_answer" \in DOMAIN r

HasError(r) == "error" \in DOMAIN r

OneRecordStep ==
    /\ result # NoResult => result' = result
    /\ result' # NoResult => (HasAnswer(result') # HasError(result'))
    /\ ctl' = "ERROR" => (HasError(result') /\ ~HasAnswer(result'))
    /\ results_file' # results_file => (result # NoResult /\ results_file' = <<result>>)
    /\ driver_pc' \in {"write_trace", "finished", "crashed"} => results_file' = <<result'>>

---------------------------------------------------------------------------
(* C20: when the run has ended with an error, what the driver writes to the
   trace output is the chat_history that the session accumulated in the
   rounds completed before the failure. *)
C20_TraceHoldsPartialTranscript ==
    (ctl = "ERROR" /\ driver_pc \in {"finished", "crashed"})
        => trace_out = Written(ChatHistory(state))

---------------------------------------------------------------------------
(* C21: once a step has raised, no participant and no coordinator is invoked
   again, no step is started again and the round counter stays; in the whole
   run no agent is invoked more than max_iterations times. *)
ErrorOccurred == failed_by # "none" \/ ctl = "ERROR"

NoInvocationAfterError ==
    /\ ErrorOccurred =>
          /\ invocations' = invocations
          /\ started' = started
          /\ times_looped' = times_looped
          /\ ctl' = "ERROR"
    /\ \A a \in AgentNames : invocations'[a] <= max_iterations

C21_NoRetryAfterError == [][NoInvocationAfterError]_vars

\* a participant raised in the second round; the driver has written the
\* record and gone on, the coordinator of that round was never invoked
C21_Witness ==
    /\ ctl = "ERROR" /\ failed_by \in group_agents
    /\ times_looped = 1
    /\ invocations[CoordinatorName] = 1
    /\ \A p \in group_agents : invocations[p] = 2
    /\ driver_pc \in {"finished", "crashed"}

---------------------------------------------------------------------------
(* C22: the state of the task's session, in the session service and in the
   Session object the driver holds, is changed only by a participant, the
   coordinator or the transcript updater while that step runs; no code
   outside the step sequence writes it. *)
StepRunning ==
    \/ Current("Working_Group") /\ active
    \/ Current("Coordinator") /\ active
    \/ Current("Update_Chat_History")

StateWrittenByStepsOnly ==
    /\ state' # state => StepRunning
    /\ driver_session' # driver_session => StepRunning

C22_SessionWrittenByStepsOnly == [][StateWrittenByStepsOnly]_vars

---------------------------------------------------------------------------
(* C23: as long as the call of some participant of round i has not returned,
   the coordinator has not been invoked in round i, chat_history has not
   been updated for round i, the round counter stays at i and the loop is in
   no terminal state, whatever max_iterations is; the run leaves this
   situation only by an exception of another participant. *)
C23_HungParticipantStallsRound ==
    inflight # {} =>
        /\ invocations[CoordinatorName] = times_looped
        /\ completed["Update_Chat_History"] = times_looped
        /\ Len(folded) = times_looped
        /\ times_looped < max_iterations
        /\ ctl \notin {"CONSENSUS_REACHED", "EXHAUSTED"}
        /\ ctl = "ERROR" => failed_by \in group_agents

\* in the second round one participant has answered and the other call has
\* not returned
C23_Witness ==
    /\ ctl = "RUNNING" /\ times_looped = 1
    /\ inflight = {ParticipantNames[1]}
    /\ state[OutputKey(ParticipantNames[2])].rnd = 1

---------------------------------------------------------------------------
(* C24: when unzip_file returns success for an archive, the directory it
   names holds exactly the members of that archive; when it returns that the
   extraction failed, the extraction directory of the archive is gone. *)
C24_SuccessMeansOwnContents ==
    /\ unzip_ret.ret.status = "success" =>
          /\ extract_dirs[unzip_ret.ret.extract_dir] = Dir(Members(unzip_ret.call))
          /\ unzip_ret.ret.extracted_files = Members(unzip_ret.call)
    /\ (unzip_ret.ret.status = "error"
        /\ unzip_ret.ret.message = "failed to extract")
          => ~extract_dirs[FileNameStem(unzip_ret.call)].exists

---------------------------------------------------------------------------
(* C25: what execute_python_code returns has status success or error; the
   status is success only when the script exited with code 0 and, if a
   return_file was requested, that file was read; and output is None
   whenever the status is error. *)
C25_StatusAndOutputAgree ==
    exec_ret # NoExecReturn =>
        /\ exec_ret.status \in {"success", "error"}
        /\ exec_ret.status = "success" =>
              /\ exec_input.exec = "exit_0"
              /\ exec_input.return_file \in {"none", "read"}
        /\ exec_ret.status = "error" => exec_ret.output = "None"

---------------------------------------------------------------------------
(* C26: when the loop has stopped in CONSENSUS_REACHED, the last update of
   chat_history has appended the coordinator's marker-bearing message of the
   final round and every message a participant produced in that round, and
   chat_history holds them. *)
FinalRoundMessages == {m \in produced : m.rnd = times_looped}

LastFolded == {folded[Len(folded)][i].message : i \in DOMAIN folded[Len(folded)]}

C26_ConsensusTranscriptComplete ==
    ctl = "CONSENSUS_REACHED" =>
        /\ Len(folded) = times_looped + 1
        /\ \E m \in FinalRoundMessages :
              m.by = CoordinatorName /\ MarkerForm(m.text)
        /\ \A m \in FinalRoundMessages :
              m \in LastFolded /\ Occurrences(m) # {}

\* consensus in the second round, in which both participants answered
C26_Witness ==
    /\ ctl = "CONSENSUS_REACHED" /\ times_looped = 1
    /\ \A p \in group_agents : \E m \in FinalRoundMessages : m.by = p
    /\ Cardinality(FinalRoundMessages) = Cardinality(group_agents) + 1

---------------------------------------------------------------------------
(* C27: the loop has stopped in CONSENSUS_REACHED only on a marker-bearing
   message that the coordinator produced in the round of that check; and
   whenever the coordinator's key holds a message of an earlier round while
   the loop runs, that message bears no marker, so the check of a round in
   which the coordinator produced nothing does not escalate. *)
StaleCoordinatorMessage ==
    HasKey(state, ConsensusKey) /\ state[ConsensusKey].rnd < times_looped

C27_EscalationNeedsFreshMarker ==
    /\ ctl = "CONSENSUS_REACHED" =>
          /\ HasKey(state, ConsensusKey)
          /\ state[ConsensusKey].rnd = times_looped
          /\ state[ConsensusKey] \in produced
          /\ MarkerForm(state[ConsensusKey].text)
    /\ StaleCoordinatorMessage => ~MarkerForm(state[ConsensusKey].text)

\* the check of the second round ran on the coordinator message of the
\* first round and the loop went on to exhaustion
C27_Witness ==
    /\ ctl = "EXHAUSTED" /\ times_looped = 2
    /\ completed["Check_Consensus"] = 2
    /\ StaleCoordinatorMessage /\ state[ConsensusKey].rnd = 0

---------------------------------------------------------------------------
(* C28: the step of the transcript updater changes no key of the session
   state but chat_history and removes none; the step of the consensus
   detector leaves the session state as it is; and no entry that an update
   appends is made from the chat_history key. *)
UpdaterAndDetectorFrame ==
    /\ Current("Update_Chat_History") =>
          /\ ChangedKeys(state, state') = {ChatHistoryKey}
          /\ DOMAIN state' = DOMAIN state \cup {ChatHistoryKey}
          /\ \A i \in DOMAIN folded'[Len(folded')] :
                folded'[Len(folded')][i].name # ChatHistoryKey[1]
    /\ Current("Check_Consensus") => state' = state

C28_UpdaterWritesChatHistoryOnly == [][UpdaterAndDetectorFrame]_vars

\* the second update, which found chat_history among the keys, and the
\* check after it have run
C28_Witness ==
    /\ times_looped = 2 /\ ctl = "EXHAUSTED"
    /\ Len(folded) = 2
    /\ Len(folded[2]) = Cardinality(group_agents) + 1
    /\ key_order[Len(key_order)] = ChatHistoryKey

---------------------------------------------------------------------------
(* C29: in a group whose coordinator writes under a key other than
   Coordinator_message, that key is never set, the detector's flag is false
   in every state, the loop never stops in CONSENSUS_REACHED, and a run in
   which no call raises ends in EXHAUSTED after max_iterations rounds, also
   when the coordinator has emitted the marker. *)
C29_OtherKeyNeverEscalates ==
    /\ ~HasKey(state, ConsensusKey)
    /\ ~EscalateFlag(state)
    /\ ctl # "CONSENSUS_REACHED"
    /\ ctl = "RUNNING" => times_looped < max_iterations
    /\ ctl = "EXHAUSTED" =>
          /\ times_looped = max_iterations
          /\ completed["Check_Consensus"] = max_iterations

\* the coordinator emitted the marker in the first round and the loop went
\* through both rounds
C29_Witness ==
    /\ ctl = "EXHAUSTED" /\ max_iterations = 2
    /\ \E m \in CoordinatorMessages : m.rnd = 0 /\ MarkerForm(m.text)
    /\ \E k \in OtherCoordinatorKeys :
          HasKey(state, k) /\ state[k].by = CoordinatorName

---------------------------------------------------------------------------
(* C30: when the loop has ended and no agent has sent a final response with
   content, the record the driver builds is the error record, without an
   answer; the driver appends it to the results file and goes on to the
   trace-writing step, and nothing before that step ends the driver. *)
NoContentRun == ctl \in {"CONSENSUS_REACHED", "EXHAUSTED"} /\ produced = {}

NoContentStep ==
    NoContentRun =>
        /\ final_response = NoMsg
        /\ result' # NoResult => (result' = ErrorRecord /\ ~HasAnswer(result'))
        /\ driver_pc = "try" => driver_pc' = "write_result"
        /\ driver_pc = "write_result" =>
              (driver_pc' = "write_trace" /\ results_file' = <<ErrorRecord>>)
        /\ driver_pc' = "crashed" => driver_pc = "write_trace"

C30_NoContentGivesErrorRecord == [][NoContentStep]_vars

\* two rounds without any content: the error record is in the results file
\* and the driver is at the trace-writing step
C30_Witness ==
    /\ NoContentRun /\ times_looped = 2
    /\ results_file = <<ErrorRecord>>
    /\ driver_pc = "write_trace"

====
